---- MODULE Spec2Model ----
(***************************************************************************)
(* RiskApprove: the ML service (src/ml-service/app.py) and the RAG         *)
(* compliance service (src/rag-service/app.py).                            *)
(*                                                                         *)
(* Three specifications share the variables:                               *)
(*   SpecML     - one request to the ML service, with the behaviour of     *)
(*                yfinance and of the random module drawn in Init;         *)
(*   SpecCheck  - one POST /compliance/check, with the vector store and    *)
(*                the behaviour of the similarity search drawn in Init;    *)
(*   SpecReload - the life of the process-wide vector_store: start-up,     *)
(*                POST /regulations/reload and changes of the files.       *)
(* Numbers: weights and returns are exact decimals (percent, rationals);   *)
(* floating-point rounding is not modelled.                                *)
(***************************************************************************)
EXTENDS Integers, Sequences, FiniteSets, TLC

VARIABLES
  mlPc,          \* "pending" | "done": the ML request has been answered
  mlReq,         \* the ML request: endpoint and body
  mlEnv,         \* what yfinance / random / Flask do during the request
  mlResp,        \* the ML response
  fetchLog,      \* per processed symbol: the history fetches attempted
  ragPc,         \* "pending" | "done": the compliance request has been answered
  ragReq,        \* the compliance request body
  ragEnv,        \* what the similarity search does during the request
  ragResp,       \* the compliance response
  vector_store,  \* the process-wide index handle (None or an index)
  disk_index,    \* the saved index under EMBEDDINGS_DIR/faiss_index
  reg_dir,       \* the files of REGULATIONS_DIR
  lastOp         \* the last operation on the vector store and its status

vars == <<mlPc, mlReq, mlEnv, mlResp, fetchLog, ragPc, ragReq, ragEnv, ragResp,
          vector_store, disk_index, reg_dir, lastOp>>

mlVars == <<mlPc, mlReq, mlEnv, mlResp, fetchLog>>
ragVars == <<ragPc, ragReq, ragEnv, ragResp>>
storeVars == <<vector_store, disk_index, reg_dir, lastOp>>

(***************************************************************************)
(* Numbers of the JSON payloads: a rational, NaN, or null.                 *)
(***************************************************************************)
Num(n, d) == [t |-> "num", num |-> n, den |-> d]
NaN == [t |-> "nan", num |-> 0, den |-> 1]
Null == [t |-> "null", num |-> 0, den |-> 1]

\* x > a/b for a payload number x; any comparison with NaN is False
Greater(x, a, b) == x.t = "num" /\ x.num * b > a * x.den
Less(x, a, b) == x.t = "num" /\ x.num * b < a * x.den

(***************************************************************************)
(* The ML service                                                          *)
(***************************************************************************)
Symbols == {"AAPL", "MSFT"}

\* the longest 'stocks' list of a request
MaxStocks == 2

TradingDays == 252
Sma20Window == 20
Sma50Window == 50
MockDataPoints == 252

Trends == {"BULLISH", "BEARISH", "NEUTRAL"}
Signals == {"BUY", "SELL", "HOLD"}

\* A data frame of daily closes: n rows in three price segments, with the
\* standard deviation of the daily returns (basis points) as pandas gives it.
Frame(n, a, k1, b, k2, c, std) ==
  [n |-> n, a |-> a, k1 |-> k1, b |-> b, k2 |-> k2, c |-> c, std |-> std]

EmptyFrame == Frame(0, 10, 0, 10, 0, 10, 0)

Frames ==
  { EmptyFrame,
    Frame(1, 10, 1, 10, 1, 10, 0),
    Frame(30, 10, 10, 9, 30, 9, 100),
    Frame(30, 9, 10, 10, 30, 10, 100),
    Frame(50, 10, 50, 10, 50, 10, 0),
    Frame(60, 9, 45, 10, 60, 10, 100),
    Frame(252, 20, 1, 9, 225, 10, 700),
    Frame(252, 10, 1, 9, 225, 10, 100) }

\* hist['Close']
Close(h) ==
  [i \in 1..h.n |-> IF i <= h.k1 THEN h.a ELSE IF i <= h.k2 THEN h.b ELSE h.c]

RECURSIVE SumRange(_, _, _)
SumRange(f, lo, hi) ==
  IF lo > hi THEN 0
  ELSE IF lo = hi THEN f[lo]
  ELSE LET mid == (lo + hi) \div 2 IN SumRange(f, lo, mid) + SumRange(f, mid + 1, hi)

RECURSIVE Product(_)
Product(S) ==
  IF S = {} THEN 1 ELSE LET x == CHOOSE y \in S : TRUE IN x * Product(S \ {x})

\* data.rolling(window).mean(), last row: NaN until the window is full
calculate_sma(close, window) ==
  LET n == Len(close) IN
  IF n < window THEN NaN ELSE Num(SumRange(close, n - window + 1, n), window)

\* hist['Close'].pct_change().mean() * 252: the first return is NaN and is
\* skipped by mean(); with no return at all the mean is NaN
ExpectedReturn(close) ==
  LET n == Len(close)
      D == Product({close[i] : i \in 1..n})
      scaled == [i \in 1..n |->
                  IF i = 1 THEN 0 ELSE (close[i] - close[i-1]) * (D \div close[i-1])]
  IN IF n < 2 THEN NaN ELSE Num(TradingDays * SumRange(scaled, 2, n), D * (n - 1))

\* hist['DailyReturn'].std() * np.sqrt(252): std needs two returns
\* np.sqrt(252), in hundredths
SqrtTradingDaysE2 == 1587
Volatility(h) ==
  IF h.n < 3 THEN NaN ELSE Num(h.std * SqrtTradingDaysE2, 1000000)

\* min(100, max(0, v * 100)); Python's max(0, nan) is 0
RiskScore(v, scale) ==
  IF v.t # "num" THEN Num(0, 1)
  ELSE IF v.num * scale < 0 THEN Num(0, 1)
  ELSE IF v.num * scale > 100 * v.den THEN Num(100, 1)
  ELSE Num(v.num * scale, v.den)

PredictionKeys ==
  {"symbol", "expectedReturn", "volatility", "riskScore", "trend", "signal",
   "currentPrice", "sma20", "sma50", "dataPoints"}

Record(keys, symbol, er, vol, risk, trend, signal, price, s20, s50, points) ==
  [keys |-> keys, symbol |-> symbol, expectedReturn |-> er, volatility |-> vol,
   riskScore |-> risk, trend |-> trend, signal |-> signal, currentPrice |-> price,
   sma20 |-> s20, sma50 |-> s50, dataPoints |-> points]

\* Python's None as the result of calculate_technical_indicators
None == Record({}, "", Null, Null, Null, "", "", Null, Null, Null, 0)

ErrorEntry(symbol) ==
  Record({"symbol", "error"}, symbol, Null, Null, Null, "", "", Null, Null, Null, 0)

\* what the random module draws in generate_mock_prediction (basis points)
MockDraws ==
  [ret : {500, 1500}, vol : {2500}, trend : Trends, price : {100}]

generate_mock_prediction(symbol, draw) ==
  LET signal == IF draw.trend = "BULLISH" THEN "BUY"
                ELSE IF draw.trend = "BEARISH" THEN "SELL" ELSE "HOLD"
  IN Record(PredictionKeys \cup {"note"}, symbol,
            Num(draw.ret, 10000), Num(draw.vol, 10000),
            RiskScore(Num(draw.vol, 10000), 200),
            draw.trend, signal, Num(draw.price, 1),
            Num(draw.price * 98, 100), Num(draw.price * 95, 100), MockDataPoints)

TrendOf(sma20, sma50) ==
  IF sma20.t = "nan" \/ sma50.t = "nan" THEN "NEUTRAL"
  ELSE IF sma20.num * sma50.den > sma50.num * sma20.den THEN "BULLISH"
  ELSE "BEARISH"

\* the signal with 'and' in place of 'or' in the SELL condition
SignalSellNeedsBoth(trend, er) ==
  IF trend = "BULLISH" /\ Greater(er, 5, 100) THEN "BUY"
  ELSE IF trend = "BEARISH" /\ Less(er, -5, 100) THEN "SELL"
  ELSE "HOLD"

SignalOf(trend, er) ==
  IF trend = "BULLISH" /\ Greater(er, 5, 100) THEN "BUY"
  ELSE IF trend = "BEARISH" \/ Less(er, -5, 100) THEN "SELL"
  ELSE "HOLD"

\* lines 110-158: the indicators of a non-empty frame
ComputeIndicators(symbol, h) ==
  LET close == Close(h)
      er == ExpectedReturn(close)
      vol == Volatility(h)
      sma20 == calculate_sma(close, Sma20Window)
      sma50 == calculate_sma(close, Sma50Window)
      trend == TrendOf(sma20, sma50)
  IN Record(PredictionKeys, symbol, er, vol, RiskScore(vol, 100), trend,
            SignalOf(trend, er), Num(close[h.n], 1),
            IF sma20.t = "nan" THEN Null ELSE sma20,
            IF sma50.t = "nan" THEN Null ELSE sma50,
            h.n)

(***************************************************************************)
(* The data source: each ticker.history call raises or returns a frame.    *)
(***************************************************************************)
Raises == [raises |-> TRUE, frame |-> EmptyFrame]
Returns(h) == [raises |-> FALSE, frame |-> h]
Outcomes == {Raises} \cup {Returns(h) : h \in Frames}

DefaultDraw == [ret |-> 500, vol |-> 2500, trend |-> "NEUTRAL", price |-> 100]

\* the behaviour of the libraries while one symbol is processed:
\* yf.Ticker(symbol), history(period='1y'), history(start, end),
\* history(period='6mo'), the pandas computation, the random draws
Env(tr, o1, o2, o3, cr, draw) ==
  [tickerRaises |-> tr, o1 |-> o1, o2 |-> o2, o3 |-> o3,
   computeRaises |-> cr, draw |-> draw]

Usable(o) == ~o.raises /\ o.frame.n > 0

\* lines 83-104: the three fetch attempts. returned = FALSE is the
\* 'return None' of line 104.
\* the fetches, with the '6mo' fetch also tried after an empty date-range frame
FetchBadFallthrough(e) ==
  IF Usable(e.o1)
  THEN [returned |-> TRUE, hist |-> e.o1.frame, attempts |-> <<"1y">>, source |-> "1y"]
  ELSE IF Usable(e.o2)
  THEN [returned |-> TRUE, hist |-> e.o2.frame, attempts |-> <<"1y", "range">>,
        source |-> "range"]
  ELSE IF ~e.o3.raises
  THEN [returned |-> TRUE, hist |-> e.o3.frame,
        attempts |-> <<"1y", "range", "6mo">>, source |-> "6mo"]
  ELSE [returned |-> FALSE, hist |-> EmptyFrame,
        attempts |-> <<"1y", "range", "6mo">>, source |-> "none"]

FetchHistory(e) ==
  IF Usable(e.o1)
  THEN [returned |-> TRUE, hist |-> e.o1.frame, attempts |-> <<"1y">>, source |-> "1y"]
  ELSE IF ~e.o2.raises
  THEN [returned |-> TRUE, hist |-> e.o2.frame, attempts |-> <<"1y", "range">>,
        source |-> "range"]
  ELSE IF ~e.o3.raises
  THEN [returned |-> TRUE, hist |-> e.o3.frame,
        attempts |-> <<"1y", "range", "6mo">>, source |-> "6mo"]
  ELSE [returned |-> FALSE, hist |-> EmptyFrame,
        attempts |-> <<"1y", "range", "6mo">>, source |-> "none"]

\* lines 80-164: result is the returned record (or None), with the fetches
\* attempted and the fetch whose frame the indicators were computed from
\* calculate_technical_indicators reporting the fixed sample count for real data
CtiMockRows(symbol, e) ==
  LET f == FetchHistory(e) IN
  IF e.tickerRaises
  THEN [result |-> generate_mock_prediction(symbol, e.draw), attempts |-> <<>>,
        used |-> "mock"]
  ELSE IF ~f.returned
  THEN [result |-> None, attempts |-> f.attempts, used |-> "none"]
  ELSE IF f.hist.n = 0 \/ e.computeRaises
  THEN [result |-> generate_mock_prediction(symbol, e.draw), attempts |-> f.attempts,
        used |-> "mock"]
  ELSE [result |-> [ComputeIndicators(symbol, f.hist) EXCEPT !.dataPoints = MockDataPoints],
        attempts |-> f.attempts, used |-> f.source]

calculate_technical_indicators(symbol, e) ==
  LET f == FetchHistory(e) IN
  IF e.tickerRaises
  THEN [result |-> generate_mock_prediction(symbol, e.draw), attempts |-> <<>>,
        used |-> "mock"]
  ELSE IF ~f.returned
  THEN [result |-> None, attempts |-> f.attempts, used |-> "none"]
  ELSE IF f.hist.n = 0 \/ e.computeRaises
  THEN [result |-> generate_mock_prediction(symbol, e.draw), attempts |-> f.attempts,
        used |-> "mock"]
  ELSE [result |-> ComputeIndicators(symbol, f.hist), attempts |-> f.attempts,
        used |-> f.source]

(***************************************************************************)
(* Request bodies and request.get_json()                                   *)
(***************************************************************************)
\* kind: "unparseable" (JSON content type, invalid JSON), "absent" (no JSON
\* content type), "null", "object", "array". has: the keys of an object, or
\* the strings an array holds.
Body(kind, has, stocks, symbol) ==
  [kind |-> kind, has |-> has, stocks |-> stocks, symbol |-> symbol]

NotAList == [isList |-> FALSE, items |-> <<>>]
ListOf(items) == [isList |-> TRUE, items |-> items]

SeqsUpTo(S, n) == UNION {[1..k -> S] : k \in 0..n}

StocksValues == {NotAList} \cup {ListOf(s) : s \in SeqsUpTo(Symbols, MaxStocks)}

\* request.get_json(): BadRequest on invalid JSON; without a JSON content
\* type None (Flask < 2.1) or an HTTP exception (later versions)
get_json(body, lib) ==
  IF body.kind = "unparseable" THEN [raises |-> TRUE, isNone |-> FALSE]
  ELSE IF body.kind = "absent"
  THEN [raises |-> lib = "strict", isNone |-> lib = "legacy"]
  ELSE [raises |-> FALSE, isNone |-> body.kind = "null"]

\* 'not data' for the parsed body
Falsy(body, parsed) == parsed.isNone \/ body.has = {}

Response(status, shape, items) == [status |-> status, shape |-> shape, items |-> items]

\* a record is truthy, None is not
Truthy(prediction) == prediction.keys # {}

(***************************************************************************)
(* The handlers of the ML service. env.lib is the Flask behaviour on a     *)
(* body without JSON content type, env.calls[i] the libraries' behaviour   *)
(* while the i-th symbol is processed.                                     *)
(***************************************************************************)
ErrorResponse(status) == Response(status, "error", <<>>)

\* GET /health
health == Response(200, "health", <<>>)

\* POST /predict, lines 183-214
predict(body, env) ==
  LET parsed == get_json(body, env.lib)
      stocks == body.stocks
      calls == [i \in 1..Len(stocks.items) |->
                 calculate_technical_indicators(stocks.items[i], env.calls[i])]
      results == [i \in 1..Len(stocks.items) |->
                   IF Truthy(calls[i].result) THEN calls[i].result
                   ELSE ErrorEntry(stocks.items[i])]
  IN IF parsed.raises THEN [resp |-> ErrorResponse(500), log |-> <<>>]
     ELSE IF Falsy(body, parsed) \/ "stocks" \notin body.has
     THEN [resp |-> ErrorResponse(400), log |-> <<>>]
     ELSE IF body.kind = "array" THEN [resp |-> ErrorResponse(500), log |-> <<>>]
     ELSE IF ~stocks.isList \/ Len(stocks.items) = 0
     THEN [resp |-> ErrorResponse(400), log |-> <<>>]
     ELSE [resp |-> Response(200, "predictions", results),
           log |-> [i \in 1..Len(stocks.items) |->
                     [attempts |-> calls[i].attempts, used |-> calls[i].used,
                      result |-> calls[i].result]]]

\* POST /predict/single answering as /predict does for a symbol without data
predict_single_error_entry(body, env) ==
  LET parsed == get_json(body, env.lib)
      call == calculate_technical_indicators(body.symbol, env.calls[1])
      entry == [attempts |-> call.attempts, used |-> call.used, result |-> call.result]
  IN IF parsed.raises THEN [resp |-> ErrorResponse(500), log |-> <<>>]
     ELSE IF Falsy(body, parsed) \/ "symbol" \notin body.has
     THEN [resp |-> ErrorResponse(400), log |-> <<>>]
     ELSE IF body.kind = "array" THEN [resp |-> ErrorResponse(500), log |-> <<>>]
     ELSE IF Truthy(call.result)
     THEN [resp |-> Response(200, "record", <<call.result>>), log |-> <<entry>>]
     ELSE [resp |-> Response(200, "record", <<ErrorEntry(body.symbol)>>), log |-> <<entry>>]

\* POST /predict/single, lines 227-243
predict_single(body, env) ==
  LET parsed == get_json(body, env.lib)
      call == calculate_technical_indicators(body.symbol, env.calls[1])
      entry == [attempts |-> call.attempts, used |-> call.used, result |-> call.result]
  IN IF parsed.raises THEN [resp |-> ErrorResponse(500), log |-> <<>>]
     ELSE IF Falsy(body, parsed) \/ "symbol" \notin body.has
     THEN [resp |-> ErrorResponse(400), log |-> <<>>]
     ELSE IF body.kind = "array" THEN [resp |-> ErrorResponse(500), log |-> <<>>]
     ELSE IF Truthy(call.result)
     THEN [resp |-> Response(200, "record", <<call.result>>), log |-> <<entry>>]
     ELSE [resp |-> ErrorResponse(404), log |-> <<entry>>]

(***************************************************************************)
(* The requests and library behaviours of SpecML                           *)
(***************************************************************************)
\* every combination of the three fetch outcomes, with the parts of the
\* behaviour that the run never reaches held at their defaults
Envs ==
  { e \in [tickerRaises : BOOLEAN, o1 : Outcomes, o2 : Outcomes, o3 : Outcomes,
           computeRaises : BOOLEAN, draw : MockDraws] :
      LET f == FetchHistory(e)
          mocked == e.tickerRaises \/ (f.returned /\ (f.hist.n = 0 \/ e.computeRaises))
      IN /\ (e.tickerRaises => e.o1 = Raises /\ ~e.computeRaises)
         /\ (Len(f.attempts) < 2 \/ e.tickerRaises => e.o2 = Raises)
         /\ (Len(f.attempts) < 3 \/ e.tickerRaises => e.o3 = Raises)
         /\ (e.computeRaises => f.returned /\ f.hist.n > 0)
         /\ (~mocked => e.draw = DefaultDraw) }

\* the behaviours used for the symbols of a 'stocks' list
ListEnvs ==
  { Env(FALSE, Returns(Frame(60, 9, 45, 10, 60, 10, 100)), Raises, Raises, FALSE, DefaultDraw),
    Env(FALSE, Raises, Raises, Raises, FALSE, DefaultDraw),
    Env(FALSE, Returns(EmptyFrame), Returns(EmptyFrame), Raises, FALSE, DefaultDraw),
    Env(FALSE, Raises, Returns(Frame(1, 10, 1, 10, 1, 10, 0)), Raises, FALSE, DefaultDraw),
    Env(FALSE, Raises, Raises, Returns(Frame(50, 10, 50, 10, 50, 10, 0)), FALSE, DefaultDraw),
    Env(TRUE, Raises, Raises, Raises, FALSE,
        [ret |-> 1500, vol |-> 2500, trend |-> "BULLISH", price |-> 100]) }

FieldSets == SUBSET {"stocks", "symbol", "other"}

NonObjectBodies ==
  {Body(k, {}, NotAList, "AAPL") : k \in {"unparseable", "absent", "null"}}
  \cup {Body("array", has, NotAList, "AAPL") : has \in SUBSET {"stocks", "symbol"}}

PredictBodies ==
  NonObjectBodies
  \cup {Body("object", has, NotAList, "AAPL") : has \in {f \in FieldSets : "stocks" \notin f}}
  \cup {Body("object", has, v, "AAPL") :
          has \in {f \in FieldSets : "stocks" \in f}, v \in StocksValues}

SingleBodies ==
  NonObjectBodies
  \cup {Body("object", has, NotAList, "AAPL") : has \in {f \in FieldSets : "symbol" \notin f}}
  \cup {Body("object", has, NotAList, sym) :
          has \in {f \in FieldSets : "symbol" \in f}, sym \in Symbols}

Libs(body) == IF body.kind = "absent" THEN {"legacy", "strict"} ELSE {"strict"}

MLInputs ==
  {[req |-> [endpoint |-> "health", body |-> Body("absent", {}, NotAList, "AAPL")],
    env |-> [lib |-> "strict", calls |-> <<>>]]}
  \cup {[req |-> [endpoint |-> "predict", body |-> b], env |-> [lib |-> l, calls |-> c]] :
          b \in PredictBodies, l \in {"legacy", "strict"},
          c \in SeqsUpTo(ListEnvs, MaxStocks)}
  \cup {[req |-> [endpoint |-> "single", body |-> b], env |-> [lib |-> l, calls |-> <<e>>]] :
          b \in SingleBodies, l \in {"legacy", "strict"}, e \in Envs}

\* the inputs in canonical form: one behaviour per processed symbol
CanonicalInput(in) ==
  LET b == in.req.body
      reachesLoop == b.kind = "object" /\ "stocks" \in b.has /\ b.stocks.isList
      reachesCall == b.kind = "object" /\ "symbol" \in b.has
  IN /\ in.env.lib \in Libs(b)
     /\ in.req.endpoint = "predict" =>
          Len(in.env.calls) = IF reachesLoop THEN Len(b.stocks.items) ELSE 0
     /\ in.req.endpoint = "single" /\ ~reachesCall =>
          in.env.calls = <<Env(TRUE, Raises, Raises, Raises, FALSE, DefaultDraw)>>

NoResponse == Response(0, "none", <<>>)

MLInit ==
  /\ \E in \in {i \in MLInputs : CanonicalInput(i)} :
       /\ mlReq = in.req
       /\ mlEnv = in.env
  /\ mlPc = "pending"
  /\ mlResp = NoResponse
  /\ fetchLog = <<>>

MLIdle ==
  /\ mlPc = "done"
  /\ mlReq = [endpoint |-> "health", body |-> Body("absent", {}, NotAList, "AAPL")]
  /\ mlEnv = [lib |-> "strict", calls |-> <<>>]
  /\ mlResp = NoResponse
  /\ fetchLog = <<>>

Health ==
  /\ mlPc = "pending"
  /\ mlReq.endpoint = "health"
  /\ mlResp' = health
  /\ mlPc' = "done"
  /\ UNCHANGED <<mlReq, mlEnv, fetchLog, ragVars, storeVars>>

Predict ==
  /\ mlPc = "pending"
  /\ mlReq.endpoint = "predict"
  /\ LET out == predict(mlReq.body, mlEnv) IN
       /\ mlResp' = out.resp
       /\ fetchLog' = out.log
  /\ mlPc' = "done"
  /\ UNCHANGED <<mlReq, mlEnv, ragVars, storeVars>>

PredictSingle ==
  /\ mlPc = "pending"
  /\ mlReq.endpoint = "single"
  /\ LET out == predict_single(mlReq.body, mlEnv) IN
       /\ mlResp' = out.resp
       /\ fetchLog' = out.log
  /\ mlPc' = "done"
  /\ UNCHANGED <<mlReq, mlEnv, ragVars, storeVars>>

MLNext == Health \/ Predict \/ PredictSingle

(***************************************************************************)
(* The RAG service: documents, chunks and the index                        *)
(***************************************************************************)
CHUNK_SIZE == 400
CitationChars == 500
SearchK == 5

Files == {"sebi.pdf", "rules.txt"}
SampleSource == "sample_regulation.txt"
\* a document of an earlier deployment, still held by a saved index that was
\* cut into chunks of up to 1000 characters
ArchiveDoc == "circular.pdf"

\* Path(source).name
PathName(source) ==
  CASE source = "/app/regulations/sebi.pdf" -> "sebi.pdf"
    [] source = "/app/regulations/rules.txt" -> "rules.txt"
    [] source = "/app/regulations/circular.pdf" -> "circular.pdf"
    [] OTHER -> source

Chunk(source, words, len) == [source |-> source, words |-> words, len |-> len]

\* text_splitter.split_documents: the chunks of each document, by the
\* phrases they hold (as written, before lower())
ChunksOf(doc) ==
  CASE doc = "sebi.pdf" ->
         { Chunk("/app/regulations/sebi.pdf", {"Concentration", "limit"}, CHUNK_SIZE),
           Chunk("/app/regulations/sebi.pdf", {"horizon"}, 120) }
    [] doc = "rules.txt" ->
         { Chunk("/app/regulations/rules.txt", {"Single Stock", "high risk", "maximum"}, 300) }
    [] doc = ArchiveDoc ->
         { Chunk("/app/regulations/circular.pdf", {"exposure"}, 900),
           Chunk("/app/regulations/circular.pdf", {"sector"}, 500),
           Chunk("/app/regulations/circular.pdf", {"horizon"}, 501),
           Chunk("Unknown", {"high risk", "limit"}, 80) }
    [] OTHER ->
         { Chunk(SampleSource, {"Maximum", "single stock", "concentration", "high-risk"},
                 CHUNK_SIZE) }

\* str.lower()
Lower(w) ==
  CASE w = "Concentration" -> "concentration"
    [] w = "Single Stock" -> "single stock"
    [] w = "Maximum" -> "maximum"
    [] OTHER -> w

\* str.upper() of a risk profile
Upper(p) ==
  CASE p = "low" -> "LOW"
    [] p = "Medium" -> "MEDIUM"
    [] p = "other" -> "OTHER"
    [] OTHER -> p

\* the handle: None, or the index of the chunks of a set of documents
NoStore == [init |-> FALSE, docs |-> {}]
Index(docs) == [init |-> TRUE, docs |-> docs]
IndexChunks(store) == UNION {ChunksOf(d) : d \in store.docs}

\* REGULATIONS_DIR: it exists or not; each file is absent, readable ("ok")
\* or unreadable ("bad")
FileStates == {"absent", "ok", "bad"}
NoDir == [exists |-> FALSE, files |-> [f \in Files |-> "absent"]]
Dirs == {NoDir} \cup {[exists |-> TRUE, files |-> fs] : fs \in [Files -> FileStates]}

\* lines 58-97: the documents that load; unreadable files are skipped
load_pdf_documents(dir) ==
  IF ~dir.exists THEN {} ELSE {f \in Files : dir.files[f] = "ok"}

\* lines 141-195: the index built from the directory, or from the sample
BuildIndex(dir) ==
  LET documents == load_pdf_documents(dir) IN
  IF documents = {} THEN Index({SampleSource}) ELSE Index(documents)

\* the saved index: absent, corrupt, or the saved copy of an index
NoDisk == [state |-> "absent", docs |-> {}]
CorruptDisk == [state |-> "corrupt", docs |-> {}]
Saved(store) == [state |-> "saved", docs |-> store.docs]

\* what the file system and the embedding model do during one call
StoreEnvs ==
  [mkdirFails : BOOLEAN, embedLoadFails : BOOLEAN, embedBuildFails : BOOLEAN,
   save : {"ok", "failKeep", "failCorrupt"}]

\* lines 115-199: the handle and the saved index after the call, and
\* whether the call raised
create_vector_store(store, disk, dir, e) ==
  LET built == BuildIndex(dir) IN
  IF e.mkdirFails THEN [store |-> store, disk |-> disk, raised |-> TRUE]
  ELSE IF disk.state = "saved" /\ ~e.embedLoadFails
  THEN [store |-> Index(disk.docs), disk |-> disk, raised |-> FALSE]
  ELSE IF e.embedBuildFails THEN [store |-> store, disk |-> disk, raised |-> TRUE]
  ELSE IF e.save = "ok" THEN [store |-> built, disk |-> Saved(built), raised |-> FALSE]
  ELSE [store |-> built,
        disk |-> IF e.save = "failCorrupt" THEN CorruptDisk ELSE disk,
        raised |-> TRUE]

(***************************************************************************)
(* check_compliance                                                        *)
(***************************************************************************)
PortfolioSymbols == {"AAPL", "MSFT", "TCS"}
\* weights in percent of the portfolio (0.15 is 15)
Weights == {15, 25, 35, 50}
Portfolios == UNION {[S -> Weights] : S \in SUBSET PortfolioSymbols}
RiskProfiles == {"low", "LOW", "Medium", "HIGH", "other"}

\* riskMetrics: a dict of per-symbol metrics (a dict with a riskScore, or
\* something else), or not a dict at all
Metrics(isDict, scores, others) == [isDict |-> isDict, scores |-> scores, others |-> others]
RiskMetricsValues ==
  { Metrics(TRUE, <<>>, {}),
    Metrics(TRUE, [s \in {"AAPL"} |-> 80], {}),
    Metrics(TRUE, [s \in {"AAPL"} |-> 70], {"MSFT"}),
    Metrics(FALSE, <<>>, {}) }

RECURSIVE SumValues(_, _)
SumValues(f, S) ==
  IF S = {} THEN 0 ELSE LET x == CHOOSE y \in S : TRUE IN f[x] + SumValues(f, S \ {x})

\* max(portfolio.values()) if portfolio else 0
MaxAllocation(portfolio) ==
  IF DOMAIN portfolio = {} THEN 0
  ELSE CHOOSE w \in {portfolio[x] : x \in DOMAIN portfolio} :
         \A x \in DOMAIN portfolio : portfolio[x] <= w

\* sum(portfolio.values()) if portfolio else 0
TotalAllocation(portfolio) == SumValues(portfolio, DOMAIN portfolio)

\* thresholds.get(risk_profile.upper(), 0.25), in percent
Threshold(risk_profile) ==
  CASE Upper(risk_profile) = "LOW" -> 15
    [] Upper(risk_profile) = "MEDIUM" -> 25
    [] Upper(risk_profile) = "HIGH" -> 35
    [] OTHER -> 25

ContentLower(chunk) == {Lower(w) : w \in chunk.words}

\* the formatted message of a violation, by the values it is formatted from
Message(kind, pct, profile, limit) ==
  [kind |-> kind, pct |-> pct, profile |-> profile, limit |-> limit]

Entry(type, message, severity, source) ==
  [json |-> "object", type |-> type, message |-> message, severity |-> severity,
   source |-> source]

\* a bare string in a list of the result
StringEntry(kind) ==
  [json |-> "string", type |-> "", message |-> Message(kind, 0, "", 0),
   severity |-> "", source |-> ""]

\* a citation holding the whole chunk text
CitationUntruncated(d) ==
  [json |-> "object",
   text |-> [words |-> d.chunk.words, chars |-> d.chunk.len],
   source |-> IF d.chunk.source # "Unknown" THEN PathName(d.chunk.source) ELSE "Unknown",
   relevance_score |-> Num(10, 10 + d.score)]

\* lines 237-241
Citation(d) ==
  [json |-> "object",
   text |-> [words |-> d.chunk.words,
             chars |-> IF d.chunk.len < CitationChars THEN d.chunk.len ELSE CitationChars],
   source |-> IF d.chunk.source # "Unknown" THEN PathName(d.chunk.source) ELSE "Unknown",
   relevance_score |-> Num(10, 10 + d.score)]

\* lines 305-311: the first violation of each message
\* the violations without the removal of duplicates
KeepAllViolations(vs, seen) == vs

RECURSIVE UniqueViolations(_, _)
UniqueViolations(vs, seen) ==
  IF vs = <<>> THEN <<>>
  ELSE IF Head(vs).message \in seen THEN UniqueViolations(Tail(vs), seen)
  ELSE <<Head(vs)>> \o UniqueViolations(Tail(vs), seen \cup {Head(vs).message})

\* a result whose flag also asks for an empty list of warnings
ResultFlagFromWarnings(path, compliant, violations, warnings, citations) ==
  [path |-> path, compliant |-> compliant /\ warnings = <<>>, violations |-> violations,
   warnings |-> warnings, citations |-> citations]

Result(path, compliant, violations, warnings, citations) ==
  [path |-> path, compliant |-> compliant, violations |-> violations,
   warnings |-> warnings, citations |-> citations]

\* lines 246-263: the chunk triggers a CONCENTRATION violation
ConcentrationHit(chunk, portfolio, risk_profile) ==
  /\ \/ "concentration" \in ContentLower(chunk)
     \/ "single stock" \in ContentLower(chunk)
  /\ MaxAllocation(portfolio) > Threshold(risk_profile)

\* lines 266-272: the chunk triggers a RISK_LIMIT warning
RiskLimitHit(chunk, risk_profile) ==
  /\ Upper(risk_profile) = "LOW"
  /\ "high risk" \in ContentLower(chunk)
  /\ \/ "limit" \in ContentLower(chunk)
     \/ "maximum" \in ContentLower(chunk)

\* lines 202-327; e is the behaviour of similarity_search_with_score
check_compliance(store, portfolio, risk_profile, risk_metrics, e) ==
  LET docs == e.docs
      citations == [i \in 1..Len(docs) |-> Citation(docs[i])]
      hits == SelectSeq(docs, LAMBDA d : ConcentrationHit(d.chunk, portfolio, risk_profile))
      concentration ==
        [i \in 1..Len(hits) |->
          Entry("CONCENTRATION",
                Message("CONCENTRATION", MaxAllocation(portfolio), risk_profile,
                        Threshold(risk_profile)),
                "HIGH", PathName(hits[i].chunk.source))]
      limited == SelectSeq(docs, LAMBDA d : RiskLimitHit(d.chunk, risk_profile))
      riskLimit ==
        [i \in 1..Len(limited) |->
          Entry("RISK_LIMIT", Message("RISK_LIMIT", 20, "", 0), "",
                PathName(limited[i].chunk.source))]
      total == TotalAllocation(portfolio)
      allocation ==
        IF total - 100 > 1 \/ 100 - total > 1
        THEN <<Entry("ALLOCATION", Message("ALLOCATION", total, "", 0), "MEDIUM", "System")>>
        ELSE <<>>
      diversification ==
        IF Cardinality(DOMAIN portfolio) < 3
        THEN <<Entry("DIVERSIFICATION",
                     Message("DIVERSIFICATION", Cardinality(DOMAIN portfolio), "", 0),
                     "", "System")>>
        ELSE <<>>
      high_risk_stocks == {s \in DOMAIN risk_metrics.scores : risk_metrics.scores[s] > 70}
      riskProfile ==
        IF Upper(risk_profile) = "LOW" /\ high_risk_stocks # {}
        THEN <<Entry("RISK_PROFILE", Message("RISK_PROFILE", 0, "", 0), "", "System")>>
        ELSE <<>>
      ruleRaises == Upper(risk_profile) = "LOW" /\ ~risk_metrics.isDict
      unique_violations == UniqueViolations(concentration \o allocation, {})
  IN IF ~store.init
     THEN Result("uninitialized", TRUE, <<>>, <<StringEntry("Vector store not initialized")>>,
                 <<>>)
     ELSE IF e.searchRaises \/ ruleRaises
     THEN Result("except", FALSE,
                 <<Entry("SYSTEM_ERROR", Message("str(e)", 0, "", 0), "HIGH", "System")>>,
                 <<>>, <<>>)
     ELSE Result("normal", Len(unique_violations) = 0, unique_violations,
                 riskLimit \o diversification \o riskProfile,
                 SubSeq(citations, 1, IF Len(citations) < 3 THEN Len(citations) ELSE 3))

(***************************************************************************)
(* POST /compliance/check                                                  *)
(***************************************************************************)
RagBody(kind, has, portfolio, riskProfile, riskMetrics) ==
  [kind |-> kind, has |-> has, portfolio |-> portfolio, riskProfile |-> riskProfile,
   riskMetrics |-> riskMetrics]

EmptyPortfolio == <<>>
DefaultMetrics == Metrics(TRUE, <<>>, {})

RagResponse(status, shape, result) == [status |-> status, shape |-> shape, result |-> result]
NoResult == Result("none", FALSE, <<>>, <<>>, <<>>)

\* lines 348-364; data.get(key, default) for the three fields
compliance_check(body, store, e) ==
  LET parsed == get_json(body, e.lib)
      portfolio == IF "portfolio" \in body.has THEN body.portfolio ELSE EmptyPortfolio
      risk_profile == IF "riskProfile" \in body.has THEN body.riskProfile ELSE "MEDIUM"
      risk_metrics == IF "riskMetrics" \in body.has THEN body.riskMetrics ELSE DefaultMetrics
  IN IF parsed.raises THEN RagResponse(500, "error", NoResult)
     ELSE IF Falsy(body, parsed) THEN RagResponse(400, "error", NoResult)
     ELSE IF body.kind = "array" THEN RagResponse(500, "error", NoResult)
     ELSE RagResponse(200, "result",
                      check_compliance(store, portfolio, risk_profile, risk_metrics, e))

(***************************************************************************)
(* The requests and search behaviours of SpecCheck                         *)
(***************************************************************************)
Stores ==
  {NoStore, Index({SampleSource}), Index({ArchiveDoc})}
  \cup {Index(d) : d \in (SUBSET Files) \ {{}}}

Min(a, b) == IF a < b THEN a ELSE b

\* the orders in which k distinct chunks of the index can come back
Rankings(store) ==
  LET chunks == IndexChunks(store)
      k == Min(SearchK, Cardinality(chunks))
  IN {r \in [1..k -> chunks] : \A i, j \in 1..k : i # j => r[i] # r[j]}

\* distances in tenths, nearest first: spread out, or all equal
ScoreProfiles == {"spread", "tied"}
Score(profile, i) == IF profile = "spread" THEN 5 * (i - 1) ELSE 3

\* similarity_search_with_score(query, k=5): raises, or the k nearest chunks
\* of the index with their distances, nearest first
SearchEnvs(store) ==
  IF ~store.init THEN {[lib |-> "strict", searchRaises |-> FALSE, docs |-> <<>>]}
  ELSE {[lib |-> "strict", searchRaises |-> TRUE, docs |-> <<>>]}
       \cup {[lib |-> "strict", searchRaises |-> FALSE,
              docs |-> [i \in 1..Len(r) |-> [chunk |-> r[i], score |-> Score(p, i)]]] :
               r \in Rankings(store), p \in ScoreProfiles}

RagFieldSets ==
  {{}, {"other"}, {"portfolio"}, {"portfolio", "riskProfile", "riskMetrics"}}

RagBodies ==
  {RagBody(k, {}, EmptyPortfolio, "MEDIUM", DefaultMetrics) :
     k \in {"unparseable", "absent", "null"}}
  \cup {RagBody("array", has, EmptyPortfolio, "MEDIUM", DefaultMetrics) :
          has \in {{}, {"portfolio"}}}
  \cup {RagBody("object", has, EmptyPortfolio, "MEDIUM", DefaultMetrics) :
          has \in {{}, {"other"}}}
  \cup {RagBody("object", {"portfolio"}, pf, "MEDIUM", DefaultMetrics) : pf \in Portfolios}
  \cup {RagBody("object", {"portfolio", "riskProfile", "riskMetrics"}, pf, rp, rm) :
          pf \in Portfolios, rp \in RiskProfiles, rm \in RiskMetricsValues}

ReachesCheck(body) == body.kind = "object" /\ body.has # {}

NoRagResponse == RagResponse(0, "none", NoResult)

StoreIdle ==
  /\ disk_index = NoDisk
  /\ reg_dir = NoDir
  /\ lastOp = [op |-> "import", status |-> 0]

RagIdle ==
  /\ ragPc = "done"
  /\ ragReq = RagBody("absent", {}, EmptyPortfolio, "MEDIUM", DefaultMetrics)
  /\ ragEnv = [lib |-> "strict", searchRaises |-> FALSE, docs |-> <<>>]
  /\ ragResp = NoRagResponse

CheckInit ==
  /\ MLIdle
  /\ StoreIdle
  /\ vector_store \in Stores
  /\ ragReq \in RagBodies
  /\ \/ /\ ReachesCheck(ragReq)
        /\ ragEnv \in SearchEnvs(vector_store)
     \/ /\ ~ReachesCheck(ragReq)
        /\ vector_store = NoStore
        /\ ragEnv \in {[lib |-> l, searchRaises |-> FALSE, docs |-> <<>>] : l \in Libs(ragReq)}
  /\ ragPc = "pending"
  /\ ragResp = NoRagResponse

ComplianceCheck ==
  /\ ragPc = "pending"
  /\ ragResp' = compliance_check(ragReq, vector_store, ragEnv)
  /\ ragPc' = "done"
  /\ UNCHANGED <<ragReq, ragEnv, mlVars, storeVars>>

CheckNext == ComplianceCheck

(***************************************************************************)
(* The life of the vector store: SpecReload                                *)
(***************************************************************************)
ReloadInit ==
  /\ MLIdle
  /\ RagIdle
  /\ vector_store = NoStore
  /\ disk_index = NoDisk
  /\ reg_dir \in Dirs
  /\ lastOp = [op |-> "import", status |-> 0]

\* __main__, lines 406-410: the store is created before the server starts;
\* an exception ends the process
Startup ==
  /\ lastOp.op = "import"
  /\ \E e \in StoreEnvs :
       LET out == create_vector_store(vector_store, disk_index, reg_dir, e) IN
         /\ vector_store' = out.store
         /\ disk_index' = out.disk
         /\ lastOp' = [op |-> IF out.raised THEN "exit" ELSE "startup", status |-> 0]
  /\ UNCHANGED <<reg_dir, mlVars, ragVars>>

\* POST /regulations/reload, lines 367-378
Reload ==
  /\ lastOp.op # "exit"
  /\ \E e \in StoreEnvs :
       LET out == create_vector_store(vector_store, disk_index, reg_dir, e) IN
         /\ vector_store' = out.store
         /\ disk_index' = out.disk
         /\ lastOp' = [op |-> "reload", status |-> IF out.raised THEN 500 ELSE 200]
  /\ UNCHANGED <<reg_dir, mlVars, ragVars>>

\* the process starts again: the module-level handle is None (line 55)
Restart ==
  /\ vector_store' = NoStore
  /\ lastOp' = [op |-> "import", status |-> 0]
  /\ UNCHANGED <<disk_index, reg_dir, mlVars, ragVars>>

\* the operator changes the files of the regulations directory
EditRegulations ==
  /\ \E d \in Dirs :
       /\ d # reg_dir
       /\ reg_dir' = d
  /\ lastOp' = [op |-> "edit", status |-> 0]
  /\ lastOp.op # "exit"
  /\ UNCHANGED <<vector_store, disk_index, mlVars, ragVars>>

\* the saved index is removed or damaged on disk
DamageIndex ==
  /\ disk_index.state # "absent"
  /\ disk_index' \in {NoDisk, CorruptDisk} \ {disk_index}
  /\ lastOp' = [op |-> "edit", status |-> 0]
  /\ lastOp.op # "exit"
  /\ UNCHANGED <<vector_store, reg_dir, mlVars, ragVars>>

ReloadNext == Startup \/ Reload \/ Restart \/ EditRegulations \/ DamageIndex

MLSpecInit ==
  /\ MLInit
  /\ RagIdle
  /\ StoreIdle
  /\ vector_store = NoStore

SpecML == MLSpecInit /\ [][MLNext]_vars
SpecCheck == CheckInit /\ [][CheckNext]_vars
SpecReload == ReloadInit /\ [][ReloadNext]_vars

(***************************************************************************)
(* Claims about the ML service (SpecML)                                    *)
(***************************************************************************)
MLDone == mlPc = "done"
IsObjectWith(body, field) == body.kind = "object" /\ field \in body.has
IsFullRecord(r) == PredictionKeys \subseteq r.keys
IsMock(r) == "note" \in r.keys

\* the outcome of the fetch a method name stands for
OutcomeOf(e, method) ==
  CASE method = "1y" -> e.o1
    [] method = "range" -> e.o2
    [] OTHER -> e.o3

\* C1: every failure of the data source is replaced by mock output:
\* calculate_technical_indicators never returns None, so /predict/single
\* with a 'symbol' field answers 200 and /predict holds no error entry.
C1_FailuresAlwaysMocked ==
  MLDone =>
    /\ \A i \in DOMAIN fetchLog : Truthy(fetchLog[i].result)
    /\ (mlReq.endpoint = "single" /\ IsObjectWith(mlReq.body, "symbol")
          => mlResp.status = 200)
    /\ (mlReq.endpoint = "predict"
          => \A i \in DOMAIN mlResp.items : "error" \notin mlResp.items[i].keys)

\* the body lacks what the endpoint requires
MalformedPredict(body) ==
  \/ ~IsObjectWith(body, "stocks")
  \/ ~body.stocks.isList
  \/ body.stocks.items = <<>>
MalformedSingle(body) == ~IsObjectWith(body, "symbol")
MalformedCheck(body) == body.kind \in {"unparseable", "absent", "null"} \/ body.has = {}

\* C3: a malformed body (not parseable, missing, empty, or without the
\* required field) is answered 400 on every POST endpoint.
C3_MalformedIs400 ==
  /\ (MLDone /\ mlReq.endpoint = "predict" /\ MalformedPredict(mlReq.body)
        => mlResp.status = 400)
  /\ (MLDone /\ mlReq.endpoint = "single" /\ MalformedSingle(mlReq.body)
        => mlResp.status = 400)
  /\ (ragResp.shape # "none" /\ MalformedCheck(ragReq) => ragResp.status = 400)

\* C4: /predict with a non-empty list answers 200 with one full prediction
\* record per requested symbol, in request order.
C4_OneRecordPerSymbol ==
  MLDone /\ mlReq.endpoint = "predict" /\ ~MalformedPredict(mlReq.body) =>
    /\ mlResp.status = 200
    /\ mlResp.shape = "predictions"
    /\ Len(mlResp.items) = Len(mlReq.body.stocks.items)
    /\ \A i \in DOMAIN mlResp.items :
         /\ mlResp.items[i].symbol = mlReq.body.stocks.items[i]
         /\ IsFullRecord(mlResp.items[i])

\* C6: /predict/single with a 'symbol' field answers 200 with one record
\* of that symbol, or 404; 404 exactly when no record was produced.
C6_SingleRecordOr404 ==
  MLDone /\ mlReq.endpoint = "single" /\ IsObjectWith(mlReq.body, "symbol") =>
    /\ mlResp.status \in {200, 404}
    /\ Len(fetchLog) = 1
    /\ (mlResp.status = 404 <=> fetchLog[1].result = None)
    /\ (mlResp.status = 200 =>
          /\ mlResp.shape = "record"
          /\ Len(mlResp.items) = 1
          /\ IsFullRecord(mlResp.items[1])
          /\ mlResp.items[1].symbol = mlReq.body.symbol)
    /\ (mlResp.status = 404 => mlResp.shape = "error" /\ mlResp.items = <<>>)

C6_Witness404 ==
  /\ MLDone /\ mlReq.endpoint = "single" /\ IsObjectWith(mlReq.body, "symbol")
  /\ mlResp.status = 404
  /\ \A m \in {"1y", "range", "6mo"} : OutcomeOf(mlEnv.calls[1], m).raises

\* the records the ML response carries
ResponseRecords ==
  IF MLDone /\ mlResp.status = 200 /\ mlResp.shape \in {"predictions", "record"}
  THEN DOMAIN mlResp.items ELSE {}

\* the i-th record was computed from a frame of the data source
IsReal(i) == fetchLog[i].used \in {"1y", "range", "6mo"}
RowsUsed(i) == OutcomeOf(mlEnv.calls[i], fetchLog[i].used).frame.n

\* C7 as stated: a record computed from N rows reports dataPoints = N, and
\* 252 is reported by mock records only.
C7_Only_Mock_Reports_252 ==
  \A i \in ResponseRecords :
    /\ (IsReal(i) => mlResp.items[i].dataPoints = RowsUsed(i))
    /\ (mlResp.items[i].dataPoints = MockDataPoints => IsMock(mlResp.items[i]))

\* C7 (amended): a record computed from N rows (N >= 1, no step raising)
\* reports dataPoints = N and is not marked as mock; a mock record reports
\* 252 whatever the data source returned.
C7_DataPointsIsRowCount ==
  \A i \in ResponseRecords :
    /\ "error" \notin mlResp.items[i].keys =>
         (IsReal(i) <=> ~IsMock(mlResp.items[i]))
    /\ (IsReal(i) =>
          /\ RowsUsed(i) >= 1
          /\ mlResp.items[i].dataPoints = RowsUsed(i))
    /\ (IsMock(mlResp.items[i]) => mlResp.items[i].dataPoints = MockDataPoints)

C7_WitnessRealRows ==
  \E i \in ResponseRecords :
    /\ IsReal(i)
    /\ RowsUsed(i) = 60
    /\ mlResp.items[i].dataPoints = 60

\* C10: the '1y' fetch is first; the date-range fetch is attempted only
\* after '1y' raised or came back empty; the '6mo' fetch only after the
\* date-range fetch raised; the indicators come from the first attempt
\* with non-empty data, which is the last fetch attempted.
C10_FetchOrder ==
  MLDone =>
    \A i \in DOMAIN fetchLog :
      LET a == fetchLog[i].attempts
          e == mlEnv.calls[i]
      IN /\ a \in {<<>>, <<"1y">>, <<"1y", "range">>, <<"1y", "range", "6mo">>}
         /\ (a = <<>> <=> e.tickerRaises)
         /\ (Len(a) >= 2 => e.o1.raises \/ e.o1.frame.n = 0)
         /\ (Len(a) >= 3 => e.o2.raises)
         /\ (Len(a) = 1 => Usable(e.o1))
         /\ (Len(a) = 2 => ~e.o2.raises)
         /\ (IsReal(i) =>
               /\ fetchLog[i].used = a[Len(a)]
               /\ Usable(OutcomeOf(e, fetchLog[i].used))
               /\ \A j \in 1..(Len(a) - 1) : ~Usable(OutcomeOf(e, a[j])))

C10_WitnessThirdFetch ==
  /\ MLDone
  /\ \E i \in DOMAIN fetchLog :
       /\ fetchLog[i].attempts = <<"1y", "range", "6mo">>
       /\ fetchLog[i].used = "6mo"
       /\ ~mlEnv.calls[i].o1.raises

(***************************************************************************)
(* Claims about the RAG service (SpecReload, SpecCheck)                    *)
(***************************************************************************)
\* C2: after a reload answered 200 the vector store is the index of the
\* documents now in the regulations directory (or of the sample).
C2_ReloadRebuildsFromDirectory ==
  lastOp = [op |-> "reload", status |-> 200] => vector_store = BuildIndex(reg_dir)

CheckDone == ragPc = "done" /\ ragResp.shape # "none"
Checked == CheckDone /\ ragReq.kind = "object" /\ ragReq.has # {}

\* the arguments check_compliance was called with
ReqPortfolio == IF "portfolio" \in ragReq.has THEN ragReq.portfolio ELSE <<>>
ReqProfile == IF "riskProfile" \in ragReq.has THEN ragReq.riskProfile ELSE "MEDIUM"

TypesOf(entries) == {entries[i].type : i \in DOMAIN entries}
AllRecords(entries) == \A i \in DOMAIN entries : entries[i].json = "object"

\* C5: a non-empty JSON object is answered 200 with a result whose
\* violations, warnings and citations are lists of records, also with the
\* store uninitialized; when the search or a rule check raises the result
\* is compliant=false with one SYSTEM_ERROR violation and nothing else.
C5_AlwaysAResultRecord ==
  Checked =>
    /\ ragResp.status = 200
    /\ ragResp.shape = "result"
    /\ ragResp.result.compliant \in BOOLEAN
    /\ AllRecords(ragResp.result.violations)
    /\ AllRecords(ragResp.result.warnings)
    /\ AllRecords(ragResp.result.citations)
    /\ (ragResp.result.path = "except" =>
          /\ ~ragResp.result.compliant
          /\ Len(ragResp.result.violations) = 1
          /\ ragResp.result.violations[1].type = "SYSTEM_ERROR"
          /\ ragResp.result.warnings = <<>>
          /\ ragResp.result.citations = <<>>)

OffTarget(pf) ==
  LET total == SumValues(pf, DOMAIN pf) IN total > 101 \/ total < 99

\* C8: on every call a portfolio whose weights do not sum to 100% (within
\* 1%) gets an ALLOCATION violation and compliant=false, and a portfolio
\* of fewer than 3 symbols gets a DIVERSIFICATION warning.
C8_RuleChecksAlwaysApplied ==
  Checked =>
    /\ (OffTarget(ReqPortfolio) =>
          /\ "ALLOCATION" \in TypesOf(ragResp.result.violations)
          /\ ~ragResp.result.compliant)
    /\ (Cardinality(DOMAIN ReqPortfolio) < 3 =>
          "DIVERSIFICATION" \in TypesOf(ragResp.result.warnings))

\* the single-stock limit of a risk profile, in percent
SingleStockLimit(profile) ==
  IF profile \in {"low", "LOW"} THEN 15
  ELSE IF profile \in {"high", "HIGH"} THEN 35
  ELSE 25

LargestWeight(pf) ==
  IF DOMAIN pf = {} THEN 0
  ELSE CHOOSE w \in {pf[s] : s \in DOMAIN pf} : \A s \in DOMAIN pf : pf[s] <= w

MentionsConcentration(chunk) ==
  chunk.words \cap {"concentration", "Concentration", "single stock", "Single Stock"} # {}

ConcentrationDue ==
  /\ LargestWeight(ReqPortfolio) > SingleStockLimit(ReqProfile)
  /\ \E i \in DOMAIN ragEnv.docs : MentionsConcentration(ragEnv.docs[i].chunk)

ConcentrationCount ==
  Cardinality({i \in DOMAIN ragResp.result.violations :
                 ragResp.result.violations[i].type = "CONCENTRATION"})

\* C9 as stated: a CONCENTRATION violation is reported exactly when the
\* largest weight exceeds the profile's limit and a retrieved chunk
\* mentions concentration, and then exactly once.
C9_ConcentrationIff ==
  Checked =>
    /\ (ConcentrationCount > 0 <=> ConcentrationDue)
    /\ ConcentrationCount <= 1

\* C9 (amended): the same, for the calls in which no rule check raises;
\* when one raises the result holds the SYSTEM_ERROR violation alone.
C9_ConcentrationIffNoRaise ==
  Checked =>
    /\ (ragResp.result.path # "except" => (ConcentrationCount > 0 <=> ConcentrationDue))
    /\ (ragResp.result.path = "except" => ConcentrationCount = 0)
    /\ ConcentrationCount <= 1

C9_WitnessTwoChunksOneViolation ==
  /\ Checked
  /\ ConcentrationCount = 1
  /\ Cardinality({i \in DOMAIN ragEnv.docs :
                    MentionsConcentration(ragEnv.docs[i].chunk)}) >= 2
  /\ ReqProfile = "low"

\* the relevance 1 / (1 + distance) of a retrieved chunk, distance in tenths
Relevance(d) == Num(10, 10 + d.score)
AtLeast(x, y) == x.num * y.den >= y.num * x.den

FileName(source) ==
  IF source = "/app/regulations/sebi.pdf" THEN "sebi.pdf"
  ELSE IF source = "/app/regulations/rules.txt" THEN "rules.txt"
  ELSE IF source = "/app/regulations/circular.pdf" THEN "circular.pdf"
  ELSE source

\* the citations are the first (at most 3) retrieved chunks, most relevant
\* first, no retrieved chunk left out is more relevant, texts of <= 500 chars
TopThreeCitations(cs, docs) ==
  /\ Len(cs) = (IF Len(docs) < 3 THEN Len(docs) ELSE 3)
  /\ \A i \in DOMAIN cs :
       /\ cs[i].text.words = docs[i].chunk.words
       /\ cs[i].source = FileName(docs[i].chunk.source)
       /\ cs[i].relevance_score = Relevance(docs[i])
       /\ cs[i].text.chars <= 500
       /\ cs[i].text.chars <= docs[i].chunk.len
       /\ (docs[i].chunk.len <= 500 => cs[i].text.chars = docs[i].chunk.len)
       /\ \A j \in DOMAIN docs : j > i => AtLeast(cs[i].relevance_score, Relevance(docs[j]))

\* C11 as stated: in every compliance result the citations are the top 3
\* most relevant of the retrieved chunks, each text of at most 500 chars.
C11_CitationsAreTopThree ==
  Checked => TopThreeCitations(ragResp.result.citations, ragEnv.docs)

\* C11 (amended): the same for the calls in which no rule check raises;
\* when one raises the result holds no citation.
C11_CitationsAreTopThreeNoRaise ==
  Checked =>
    /\ (ragResp.result.path # "except" =>
          TopThreeCitations(ragResp.result.citations, ragEnv.docs))
    /\ (ragResp.result.path = "except" => ragResp.result.citations = <<>>)

C11_WitnessFourRetrievedLongText ==
  /\ Checked
  /\ Len(ragEnv.docs) = 4
  /\ Len(ragResp.result.citations) = 3
  /\ \E i \in 1..3 :
       /\ ragEnv.docs[i].chunk.len = 900
       /\ ragResp.result.citations[i].text.chars = 500
  /\ ragEnv.docs[1].score < ragEnv.docs[4].score

\* C12: on the uninitialized-store path, the normal path and the exception
\* path alike, compliant is true exactly when the returned violations list
\* is empty; the warnings play no part in the flag.
C12_CompliantIffNoViolations ==
  Checked =>
    /\ ragResp.result.path \in {"uninitialized", "normal", "except"}
    /\ (ragResp.result.compliant <=> ragResp.result.violations = <<>>)
    /\ (ragResp.result.path = "uninitialized" => ragResp.result.compliant)
    /\ (ragResp.result.path = "except" => ~ragResp.result.compliant)

C12_WitnessCompliantWithWarnings ==
  /\ Checked
  /\ ragResp.result.path = "normal"
  /\ ragResp.result.compliant
  /\ Len(ragResp.result.warnings) >= 2
  /\ ragResp.result.violations = <<>>

(***************************************************************************)
(* Trend and signal of the prediction records (SpecML)                     *)
(***************************************************************************)
\* the prediction records of the response (error entries are none)
PredictionRecords == {i \in ResponseRecords : "error" \notin mlResp.items[i].keys}

MovingAverageUndefined(r) == r.sma20.t = "null" \/ r.sma50.t = "null"

\* x >= -0.05 for a reported number; False for NaN
AtLeastMinusFivePercent(x) == x.t = "num" /\ x.num * 100 >= (0 - 5) * x.den
AboveFivePercent(x) == x.t = "num" /\ x.num * 100 > 5 * x.den

\* what holds of real and mock records alike, and of BUY on real data
TrendSignalCommon(i) ==
  LET r == mlResp.items[i] IN
    /\ r.trend \in Trends
    /\ r.signal \in Signals
    /\ (r.signal = "BUY" => r.trend = "BULLISH")
    /\ (r.trend = "BEARISH" => r.signal = "SELL")
    /\ (r.trend = "NEUTRAL" => r.signal # "BUY")
    /\ (IsReal(i) =>
          /\ (r.trend = "NEUTRAL" <=> MovingAverageUndefined(r))
          /\ (r.trend = "NEUTRAL" <=> RowsUsed(i) < 50)
          /\ (r.signal = "BUY" => AboveFivePercent(r.expectedReturn)))

\* C13 as stated: the relations of trend and signal, with HOLD on real
\* data requiring a non-BEARISH trend and an expected return >= -0.05.
C13_TrendSignalAsStated ==
  \A i \in PredictionRecords :
    /\ TrendSignalCommon(i)
    /\ (IsReal(i) /\ mlResp.items[i].signal = "HOLD" =>
          /\ mlResp.items[i].trend # "BEARISH"
          /\ AtLeastMinusFivePercent(mlResp.items[i].expectedReturn))

\* C13 (amended): as stated, except that HOLD on real data requires a
\* non-BEARISH trend and an expected return that is not below -0.05: at
\* least -0.05, or NaN, which a history of a single row gives.
C13_TrendSignal ==
  \A i \in PredictionRecords :
    LET r == mlResp.items[i] IN
      /\ TrendSignalCommon(i)
      /\ (IsReal(i) => (r.expectedReturn.t = "nan" <=> RowsUsed(i) = 1))
      /\ (IsReal(i) /\ r.signal = "HOLD" =>
            /\ r.trend # "BEARISH"
            /\ \/ AtLeastMinusFivePercent(r.expectedReturn)
               \/ r.expectedReturn.t = "nan")
      /\ (IsReal(i) /\ r.signal = "SELL" /\ r.trend # "BEARISH" =>
            r.expectedReturn.t = "num" /\ ~AtLeastMinusFivePercent(r.expectedReturn))

C13_WitnessSingleRowHolds ==
  \E i \in PredictionRecords :
    /\ IsReal(i)
    /\ RowsUsed(i) = 1
    /\ mlResp.items[i].signal = "HOLD"
    /\ mlResp.items[i].trend = "NEUTRAL"
    /\ mlResp.items[i].expectedReturn.t = "nan"

====
